---------------------------- MODULE Spec2Model ----------------------------
(***************************************************************************)
(* A model of pkg/html/transform/transform.go: the Transformer, its Apply  *)
(* pipeline and the TransformFunc constructors.                            *)
(*                                                                         *)
(* The heap is modelled explicitly.  A *Node is an index into `nodes`, a   *)
(* Go slice of *Node is a pair (backing array, length) and the backing     *)
(* arrays live in `arrays`, so that the sharing of backing arrays by the   *)
(* slices that `append` and plain slice assignment create is part of the   *)
(* model.  The capacity of a slice is the length of its backing array      *)
(* (every slice of the program starts at offset 0 of its array).           *)
(***************************************************************************)
EXTENDS Naturals, Integers, Sequences, FiniteSets, TLC

VARIABLES
    heap,     \* [nodes, arrays, panic, growth]: every Node and child array
              \* allocated, whether the program has panicked, and the spare
              \* capacity the allocator gives a grown or cloned slice
    src,      \* the root of the source document D given to NewTransform
    doc,      \* Transformer.doc: the root of the clone
    log       \* one record per Apply call: the TransformFunc, the selector,
              \* the nodes the query returned, the heap before the call and
              \* the heaps before and after each call of the TransformFunc

vars == <<heap, src, doc, log>>

(***************************************************************************)
(* Bounds of the model.                                                    *)
(***************************************************************************)
MaxCalls  == 2    \* Apply calls in one chain
MaxKids   == 3    \* children of the source document's root
MaxGrowth == 1    \* spare capacity of an allocated slice
MaxArgs   == 2    \* nodes passed to one constructor
MaxFns    == 3    \* TransformFuncs passed to CopyAnd

Null == 0         \* the nil *Node, and the nil slice's (absent) array

Tags      == {"li", "a"}
Selectors == Tags
RootTag   == "ul"

ZeroAttr == [Key |-> "", Val |-> ""]
Attrib(k, v) == [Key |-> k, Val |-> v]

(***************************************************************************)
(* Heap primitives: Node fields and Go's slice operations.                 *)
(***************************************************************************)
NewNode(data, parent, attr) ==
    [Data |-> data, Parent |-> parent, Attr |-> attr, arr |-> Null, len |-> 0]

Arr(h, a) == IF a = Null THEN <<>> ELSE h.arrays[a]

Cap(h, a) == Len(Arr(h, a))

\* n.Child as a sequence of *Node
Child(h, n) == SubSeq(Arr(h, h.nodes[n].arr), 1, h.nodes[n].len)

Attr(h, n) == h.nodes[n].Attr

Parent(h, n) == h.nodes[n].Parent

Nils(m) == [j \in 1..m |-> Null]

\* make([]*Node, len) filled by copy: a fresh array holding `content`.
\* A zero-capacity array has no storage and is represented by Null.
Make(h, content) ==
    IF content = <<>>
    THEN [h |-> h, arr |-> Null]
    ELSE [h |-> [h EXCEPT !.arrays = Append(@, content)],
          arr |-> Len(h.arrays) + 1]

\* n.Child = slice (a, l)
SetChild(h, n, a, l) == [h EXCEPT !.nodes[n].arr = a, !.nodes[n].len = l]

\* The builtin append(s, xs...) for the slice s = (a, l): in place when the
\* capacity suffices, otherwise into a new, larger array.
AppendSlice(h, a, l, xs) ==
    LET k == Len(xs)
        old == Arr(h, a)
    IN  IF l + k <= Len(old)
        THEN [h |-> IF k = 0 THEN h
                    ELSE [h EXCEPT !.arrays[a] =
                            [j \in 1..Len(old) |->
                                IF j > l /\ j <= l + k THEN xs[j - l] ELSE old[j]]],
              arr |-> a, len |-> l + k]
        ELSE LET m == Make(h, SubSeq(old, 1, l) \o xs \o Nils(h.growth))
             IN  [h |-> m.h, arr |-> m.arr, len |-> l + k]


Panic(h) == [h EXCEPT !.panic = TRUE]

(***************************************************************************)
(* The document library the package consumes: cloneNode / Document.Clone   *)
(* (a deep copy sharing nothing with its source) and the selector query    *)
(* (the matching nodes of the tree in document order).                     *)
(***************************************************************************)
RECURSIVE cloneNode(_, _, _, _)
RECURSIVE cloneKids(_, _, _, _, _)

\* Clones of cs[i..], each with Parent = parent: [h, ids]
cloneKids(h, cs, i, parent, path) ==
    IF i > Len(cs) \/ h.panic
    THEN [h |-> h, ids |-> <<>>]
    ELSE LET c == cloneNode(h, cs[i], parent, path)
             r == cloneKids(c.h, cs, i + 1, parent, path)
         IN  [h |-> r.h, ids |-> <<c.id>> \o r.ids]

\* cloneNode(n, parent): [h, id].  `path` holds the nodes being cloned on
\* the way down; meeting one again (a cyclic structure) or meeting nil
\* never returns normally.
cloneNode(h, n, parent, path) ==
    IF h.panic \/ n = Null \/ n \in path
    THEN [h |-> Panic(h), id |-> Null]
    ELSE LET id == Len(h.nodes) + 1
             h1 == [h EXCEPT !.nodes =
                       Append(@, NewNode(h.nodes[n].Data, parent, h.nodes[n].Attr))]
             ks == cloneKids(h1, Child(h, n), 1, id, path \cup {n})
             m  == Make(ks.h, IF ks.ids = <<>> THEN <<>> ELSE ks.ids \o Nils(h.growth))
         IN  [h |-> SetChild(m.h, id, m.arr, Len(ks.ids)), id |-> id]

RECURSIVE Walk(_, _, _)
RECURSIVE WalkKids(_, _, _, _)

WalkKids(h, cs, i, path) ==
    IF i > Len(cs)
    THEN [ok |-> TRUE, seq |-> <<>>]
    ELSE LET w == Walk(h, cs[i], path)
             r == WalkKids(h, cs, i + 1, path)
         IN  [ok |-> w.ok /\ r.ok, seq |-> w.seq \o r.seq]

\* The nodes of the structure under n in document order; ok is FALSE when
\* the walk meets nil or a cycle.
Walk(h, n, path) ==
    IF n = Null \/ n \in path
    THEN [ok |-> FALSE, seq |-> <<>>]
    ELSE LET ks == WalkKids(h, Child(h, n), 1, path \cup {n})
         IN  [ok |-> ks.ok, seq |-> <<n>> \o ks.seq]

\* NewSelectorQuery(sel...).Apply(doc): the nodes under the root that the
\* selector (a tag name) matches, in document order.
Query(h, root, sel) ==
    LET w == Walk(h, root, {})
    IN  [ok |-> w.ok,
         seq |-> SelectSeq(w.seq, LAMBDA n : h.nodes[n].Data = sel)]

(***************************************************************************)
(* TransformFunc values.  A TransformFunc is a closure: the constructor    *)
(* that made it and the arguments it closed over.  `arr` is the array of   *)
(* the variadic argument slice where the closure keeps the slice itself.   *)
(***************************************************************************)
TF(type, f, shape, ns, key, val, fs) ==
    [type |-> type, f |-> f, shape |-> shape, ns |-> ns, key |-> key, val |-> val,
     fs |-> fs, arr |-> Null]

AppendChildren(cs)     == TF("AppendChildren", "", "", cs, "", "", <<>>)
PrependChildren(cs)    == TF("PrependChildren", "", "", cs, "", "", <<>>)
RemoveChildren         == TF("RemoveChildren", "", "", <<>>, "", "", <<>>)
ReplaceChildren(ns)    == TF("ReplaceChildren", "", "", ns, "", "", <<>>)
Replace(ns)            == TF("Replace", "", "", ns, "", "", <<>>)
ModifyAttrib(key, val) == TF("ModifyAttrib", "", "", <<>>, key, val, <<>>)
DoAll(fs)              == TF("DoAll", "", "", <<>>, "", "", fs)
ForEach(shape, f, ns)  == TF("ForEach", f, shape, ns, "", "", <<>>)
CopyAnd(fns)           == TF("CopyAnd", "", "", <<>>, "", "", fns)

\* The function given to ForEach, called on the nodes cs: one of the
\* variadic constructors, or (shape "unary") a func(*Node) TransformFunc
\* that calls it on its one node.
Construct(f, cs) ==
    CASE f = "AppendChildren"  -> AppendChildren(cs)
      [] f = "PrependChildren" -> PrependChildren(cs)
      [] f = "ReplaceChildren" -> ReplaceChildren(cs)
      [] f = "Replace"         -> Replace(cs)

RECURSIVE Bind(_, _)
RECURSIVE BindAll(_, _, _)

BindAll(h, fs, i) ==
    IF i > Len(fs)
    THEN [h |-> h, fs |-> <<>>]
    ELSE LET b == Bind(h, fs[i])
             r == BindAll(b.h, fs, i + 1)
         IN  [h |-> r.h, fs |-> <<b.f>> \o r.fs]

\* Evaluating a constructor call: the variadic arguments of ReplaceChildren
\* become a slice of exactly that length which the closure keeps; ForEach
\* panics on a function of neither supported type.
Bind(h, f) ==
    CASE f.type = "ReplaceChildren" ->
            LET m == Make(h, f.ns) IN [h |-> m.h, f |-> [f EXCEPT !.arr = m.arr]]
      [] f.type \in {"DoAll", "CopyAnd"} ->
            LET b == BindAll(h, f.fs, 1) IN [h |-> b.h, f |-> [f EXCEPT !.fs = b.fs]]
      [] f.type = "ForEach" /\ f.shape \notin {"variadic", "unary"} ->
            [h |-> Panic(h), f |-> f]
      [] OTHER -> [h |-> h, f |-> f]

(***************************************************************************)
(* The closures the constructors return, each as a function from the heap  *)
(* before the call f(n) to the heap after it.  A panic ends the program:   *)
(* nothing runs once h.panic is set.                                       *)
(***************************************************************************)
\* AppendChildrenFunc with the two copies exchanged
AppendChildrenFuncSwapped(h, cs, n) ==
    LET m == Make(h, cs \o Child(h, n))
    IN  SetChild(m.h, n, m.arr, h.nodes[n].len + Len(cs))

\* transform.go 59-65
AppendChildrenFunc(h, cs, n) ==
    LET m == Make(h, Child(h, n) \o cs)
    IN  SetChild(m.h, n, m.arr, h.nodes[n].len + Len(cs))

\* transform.go 70-77
PrependChildrenFunc(h, cs, n) ==
    LET m == Make(h, cs \o Child(h, n))
    IN  SetChild(m.h, n, m.arr, h.nodes[n].len + Len(cs))

\* transform.go 83-85
RemoveChildrenFunc(h, n) == SetChild(h, n, Null, 0)

\* transform.go 91-93: n.Child = ns, the closure's own slice
ReplaceChildrenFunc(h, arr, ns, n) == SetChild(h, n, arr, Len(ns))

\* Splice with the new nodes put at index i, where the node found is
SpliceAtNode(h, ns, p, i) ==
    LET a == h.nodes[p].arr
        l == h.nodes[p].len
    IN  IF i > Cap(h, a) \/ i + 1 > l
        THEN Panic(h)
        ELSE LET s1   == AppendSlice(h, a, i, ns)
                 post == SubSeq(Arr(s1.h, a), i + 2, l)
                 s2   == AppendSlice(s1.h, s1.arr, s1.len, post)
             IN  SetChild(s2.h, p, s2.arr, s2.len)

\* transform.go 102-110, for the child at index i (from 0) of p
Splice(h, ns, p, i) ==
    LET a == h.nodes[p].arr
        l == h.nodes[p].len
        m == IF i - 1 < 0 THEN 0 ELSE i - 1
    IN  IF m > Cap(h, a) \/ i + 1 > l
        THEN Panic(h)
        ELSE LET s1   == AppendSlice(h, a, m, ns)              \* append(pre, ns...)
                 post == SubSeq(Arr(s1.h, a), i + 2, l)        \* p.Child[i+1:], read now
                 s2   == AppendSlice(s1.h, s1.arr, s1.len, post)
             IN  SetChild(s2.h, p, s2.arr, s2.len)

RECURSIVE ReplaceLoop(_, _, _, _, _, _, _)

\* transform.go 100-112: the range over the slice (a0, l0) that p.Child was
\* when the loop began; each element is read when its turn comes.
ReplaceLoop(h, ns, n, p, a0, l0, i) ==
    IF h.panic \/ i >= l0
    THEN h
    ELSE IF Arr(h, a0)[i + 1] = n
         THEN ReplaceLoop(Splice(h, ns, p, i), ns, n, p, a0, l0, i + 1)
         ELSE ReplaceLoop(h, ns, n, p, a0, l0, i + 1)

\* transform.go 97-113
ReplaceFunc(h, ns, n) ==
    LET p == Parent(h, n)
    IN  IF p = Null
        THEN Panic(h)
        ELSE ReplaceLoop(h, ns, n, p, h.nodes[p].arr, h.nodes[p].len, 0)

\* transform.go 119-132
ModifyAttribFunc(h, key, val, n) ==
    LET A     == Attr(h, n)
        found == \E i \in 1..Len(A) : A[i].Key = key
    IN  IF found
        THEN [h EXCEPT !.nodes[n].Attr =
                [i \in 1..Len(A) |->
                    IF A[i].Key = key THEN [A[i] EXCEPT !.Val = val] ELSE A[i]]]
        ELSE [h EXCEPT !.nodes[n].Attr =
                [i \in 1..Len(A) + 1 |->
                    IF i = Len(A) + 1 THEN Attrib(key, val) ELSE ZeroAttr]]

RECURSIVE Call(_, _, _)
RECURSIVE DoAllLoop(_, _, _, _)
RECURSIVE ForEachLoop(_, _, _, _, _)
RECURSIVE CopyAndLoop(_, _, _, _)

DoAllLoop(h, fs, i, n) ==
    IF i > Len(fs) THEN h ELSE DoAllLoop(Call(h, fs[i], n), fs, i + 1, n)

\* DoAllFunc ranging over fs from the last to the first
DoAllFuncReversed(h, fs, n) ==
    DoAllLoop(h, [i \in 1..Len(fs) |-> fs[Len(fs) + 1 - i]], 1, n)

\* transform.go 136-140
DoAllFunc(h, fs, n) == DoAllLoop(h, fs, 1, n)

ForEachLoop(h, f, ns, i, n) ==
    IF i > Len(ns) \/ h.panic
    THEN h
    ELSE LET f2 == Bind(h, Construct(f, <<ns[i]>>))         \* f2 := f1(n2)
         IN  ForEachLoop(Call(f2.h, f2.f, n), f, ns, i + 1, n)

\* ForEachFunc calling f once, on all of ns, instead of once per node
ForEachFuncOnce(h, shape, f, ns, n) ==
    LET f2 == Bind(h, Construct(f, ns))
    IN  Call(f2.h, f2.f, n)

\* transform.go 151-157 and 159-165: the two cases have the same body
ForEachFunc(h, shape, f, ns, n) == ForEachLoop(h, f, ns, 1, n)

\* transform.go 180-184: [h, newNodes]
CopyAndLoop(h, fns, i, n) ==
    IF i > Len(fns) \/ h.panic
    THEN [h |-> h, ids |-> <<>>]
    ELSE LET c == cloneNode(h, n, Parent(h, n), {})
             r == CopyAndLoop(Call(c.h, fns[i], c.id), fns, i + 1, n)
         IN  [h |-> r.h, ids |-> <<c.id>> \o r.ids]

\* transform.go 178-187
CopyAndFunc(h, fns, n) ==
    LET c == CopyAndLoop(h, fns, 1, n)
    IN  IF c.h.panic THEN c.h ELSE ReplaceFunc(c.h, c.ids, n)

\* f(n)
Call(h, f, n) ==
    IF h.panic THEN h
    ELSE CASE f.type = "AppendChildren"  -> AppendChildrenFunc(h, f.ns, n)
           [] f.type = "PrependChildren" -> PrependChildrenFunc(h, f.ns, n)
           [] f.type = "RemoveChildren"  -> RemoveChildrenFunc(h, n)
           [] f.type = "ReplaceChildren" -> ReplaceChildrenFunc(h, f.arr, f.ns, n)
           [] f.type = "Replace"         -> ReplaceFunc(h, f.ns, n)
           [] f.type = "ModifyAttrib"    -> ModifyAttribFunc(h, f.key, f.val, n)
           [] f.type = "DoAll"           -> DoAllFunc(h, f.fs, n)
           [] f.type = "ForEach"         -> ForEachFunc(h, f.shape, f.f, f.ns, n)
           [] f.type = "CopyAnd"         -> CopyAndFunc(h, f.fs, n)

RECURSIVE ApplyLoop(_, _, _, _)

\* transform.go 51-53: the heaps the loop passes through, hs[i] before and
\* hs[i+1] after the call f(nodes[i])
ApplyLoop(h, f, nodes, i) ==
    IF i > Len(nodes)
    THEN <<h>>
    ELSE <<h>> \o ApplyLoop(Call(h, f, nodes[i]), f, nodes, i + 1)

\* transform.go 49-50: the query runs on the tree as it is now.  A tree
\* the walk cannot finish on (nil child, cycle) ends the program.
Matches(h, root, sel) == Query(h, root, sel)

\* t.Apply(f, sel) run on heap h: the argument f is evaluated, the query
\* result q is taken, and f is called on each node of it.
ApplyResult(h, f, q) ==
    LET b == Bind(h, f)
    IN  [f     |-> b.f,
         nodes |-> IF b.h.panic \/ ~q.ok THEN <<>> ELSE q.seq,
         hs    |-> IF b.h.panic THEN <<b.h>>
                   ELSE IF ~q.ok THEN <<Panic(b.h)>>
                   ELSE ApplyLoop(b.h, b.f, q.seq, 1)]

(***************************************************************************)
(* The source document and the Transformer.                                *)
(***************************************************************************)
\* Nodes the caller holds outside any document and may pass to the
\* constructors: node j has tag AuxTags[j], no parent and no children.
AuxTags == <<"a", "li">>
Aux     == 1..Len(AuxTags)

AttrChoices ==
    { <<>>,
      <<Attrib("class", "x")>>,
      <<Attrib("class", "x"), Attrib("title", "t"), Attrib("class", "z")>> }

Keys == {"class", "id"}
Vals == {"x", "y"}

KidTags(max) == UNION {[1..n -> Tags] : n \in 0..max}

\* The heap holding the auxiliary nodes and a parsed document: a root with
\* one child per tag of `kids`, each with the attributes `attr`, the first
\* child having the children GrandKids.  Every child slice has g spare
\* slots.  [h, root]
GrandKids == <<"a", "li">>

ParseDoc(kids, attr, g) ==
    LET root == Len(AuxTags) + 1
        k    == Len(kids)
        m    == Len(GrandKids)
        ns   == [j \in 1..Len(AuxTags) |-> NewNode(AuxTags[j], Null, <<>>)]
                \o << [NewNode(RootTag, Null, <<>>) EXCEPT
                         !.arr = IF k = 0 THEN Null ELSE 1, !.len = k] >>
                \o [j \in 1..k |->
                      [NewNode(kids[j], root, attr) EXCEPT
                         !.arr = IF j = 1 THEN 2 ELSE Null,
                         !.len = IF j = 1 THEN m ELSE 0]]
                \o (IF k = 0 THEN <<>>
                    ELSE [j \in 1..m |-> NewNode(GrandKids[j], root + 1, <<>>)])
        as   == IF k = 0 THEN <<>>
                ELSE << [j \in 1..k + g |-> IF j <= k THEN root + j ELSE Null],
                        [j \in 1..m + g |-> IF j <= m THEN root + k + j ELSE Null] >>
    IN  [h |-> [nodes |-> ns, arrays |-> as, panic |-> FALSE, growth |-> g],
         root |-> root]

\* NewTransform keeping the document it is given
NewTransformShared(h, d) == [h |-> h, doc |-> d]

\* transform.go 37-39
NewTransform(h, d) ==
    LET c == cloneNode(h, d, Null, {})
    IN  [h |-> c.h, doc |-> c.id]

\* The state NewTransform(D) leaves for the document D = ParseDoc(kids, attr, g)
Constructed(kids, attr, g) ==
    LET d == ParseDoc(kids, attr, g)
        t == NewTransform(d.h, d.root)
    IN  [heap |-> t.h, src |-> d.root, doc |-> t.doc]

InitWith(kidSet, attrSet, growthSet) ==
    \E s \in {Constructed(kids, attr, g) :
                 kids \in kidSet, attr \in attrSet, g \in growthSet} :
        /\ heap = s.heap
        /\ src = s.src
        /\ doc = s.doc
        /\ log = <<>>

\* Transformer.Doc, transform.go 42-44
Doc == doc

(***************************************************************************)
(* Arguments of the calls.                                                 *)
(***************************************************************************)
\* The heap NewTransform left
InitHeap == IF log = <<>> THEN heap ELSE log[1].pre

\* The nodes under n
Reach(h, n) == LET w == Walk(h, n, {}) IN {w.seq[i] : i \in 1..Len(w.seq)}

\* The nodes of the source document D, as NewTransform was given it
SrcNodes == Reach(InitHeap, src)

\* A node of D the caller may also pass: the first child of D's root
SrcArg == IF Child(InitHeap, src) = <<>> THEN {} ELSE {Child(InitHeap, src)[1]}

Pool == Aux \cup SrcArg

Injective(s) == \A i, j \in 1..Len(s) : s[i] = s[j] => i = j

NodeLists   == {s \in UNION {[1..n -> Pool] : n \in 0..MaxArgs} : Injective(s)}

EachFns   == {"AppendChildren", "PrependChildren", "ReplaceChildren", "Replace"}
EachShape == {"variadic", "unary"}

\* Operations that only edit the node they are given
EditFns == {ModifyAttrib("class", "y"), ModifyAttrib("id", "x"), RemoveChildren}
FnLists == UNION {[1..n -> EditFns] : n \in 0..MaxFns}

SeqFns   == {ModifyAttrib(k, v) : k \in Keys, v \in Vals}
            \cup {RemoveChildren, AppendChildren(<<1>>)}
SeqLists == UNION {[1..n -> SeqFns] : n \in 0..2}

(***************************************************************************)
(* Transformer.Apply, transform.go 48-55.                                  *)
(***************************************************************************)
\* Apply taking the nodes the selector matched in the tree as it was first
ApplyCached(f, sel) ==
    /\ ~heap.panic
    /\ \E r \in {ApplyResult(heap, f, Matches(InitHeap, doc, sel))} :
           /\ heap' = r.hs[Len(r.hs)]
           /\ log' = Append(log, [f |-> r.f, sel |-> sel, nodes |-> r.nodes,
                                  pre |-> heap, hs |-> r.hs])
    /\ UNCHANGED <<src, doc>>

Apply(f, sel) ==
    /\ ~heap.panic
    /\ \E r \in {ApplyResult(heap, f, Matches(heap, doc, sel))} :
           /\ heap' = r.hs[Len(r.hs)]
           /\ log' = Append(log, [f |-> r.f, sel |-> sel, nodes |-> r.nodes,
                                  pre |-> heap, hs |-> r.hs])
    /\ UNCHANGED <<src, doc>>

ApplyAppendChildren(L) ==
    \E cs \in L, sel \in Selectors : Apply(AppendChildren(cs), sel)

ApplyPrependChildren(L) ==
    \E cs \in L, sel \in Selectors : Apply(PrependChildren(cs), sel)

ApplyRemoveChildren ==
    \E sel \in Selectors : Apply(RemoveChildren, sel)

ApplyReplaceChildren(L) ==
    \E ns \in L, sel \in Selectors : Apply(ReplaceChildren(ns), sel)

ApplyReplace(L) ==
    \E ns \in L, sel \in Selectors : Apply(Replace(ns), sel)

ApplyModifyAttrib(K, V) ==
    \E k \in K, v \in V, sel \in Selectors : Apply(ModifyAttrib(k, v), sel)

ApplyDoAll(FL) ==
    \E fs \in FL, sel \in Selectors : Apply(DoAll(fs), sel)

ApplyForEach(S, F, L) ==
    \E shape \in S, f \in F, ns \in L, sel \in Selectors :
        Apply(ForEach(shape, f, ns), sel)

\* ForEach given a function of neither supported type
ApplyForEachPanic ==
    \E sel \in Selectors : Apply(ForEach("other", "AppendChildren", <<>>), sel)

ApplyCopyAnd(FL) ==
    \E fns \in FL, sel \in Selectors : Apply(CopyAnd(fns), sel)

(***************************************************************************)
(* Spec: a Transformer made from a small document, driven through a chain  *)
(* of Apply calls.                                                         *)
(***************************************************************************)
ChainKids  == { <<"li">>, <<"li", "a">>, <<"a", "li", "li">> }
ChainAttr  == { <<Attrib("class", "x")>> }
ChainNodes == {<<n>> : n \in {1} \cup SrcArg}
ChainFns   == { <<ModifyAttrib("class", "y")>>,
                <<ModifyAttrib("id", "x"), RemoveChildren>> }

Init == InitWith(ChainKids, ChainAttr, {0})

ChainAppendChildren == Len(log) < MaxCalls /\ ApplyAppendChildren(ChainNodes)

ChainPrependChildren == Len(log) < MaxCalls /\ ApplyPrependChildren(ChainNodes)

ChainRemoveChildren == Len(log) < MaxCalls /\ ApplyRemoveChildren

ChainReplaceChildren == Len(log) < MaxCalls /\ ApplyReplaceChildren(ChainNodes)

ChainReplace == Len(log) < MaxCalls /\ ApplyReplace(ChainNodes)

ChainModifyAttrib == Len(log) < MaxCalls /\ ApplyModifyAttrib({"class"}, {"y"})

ChainDoAll == Len(log) < MaxCalls /\ ApplyDoAll(ChainFns)

ChainForEach == Len(log) < MaxCalls /\ ApplyForEach({"unary"}, {"AppendChildren"}, ChainNodes)

ChainForEachPanic == Len(log) < MaxCalls /\ ApplyForEachPanic

ChainCopyAnd == Len(log) < MaxCalls /\ ApplyCopyAnd(ChainFns)

Next ==
    \/ ChainAppendChildren
    \/ ChainPrependChildren
    \/ ChainRemoveChildren
    \/ ChainReplaceChildren
    \/ ChainReplace
    \/ ChainModifyAttrib
    \/ ChainDoAll
    \/ ChainForEach
    \/ ChainForEachPanic
    \/ ChainCopyAnd

Spec == Init /\ [][Next]_vars

(***************************************************************************)
(* SpecOnce: one Apply call on a Transformer made from any document of the *)
(* bounded family, with every argument list of the bounded family.         *)
(***************************************************************************)
InitOnce == InitWith(KidTags(MaxKids), AttrChoices, 0..MaxGrowth)

OnceAppendChildren == Len(log) = 0 /\ ApplyAppendChildren(NodeLists)

OncePrependChildren == Len(log) = 0 /\ ApplyPrependChildren(NodeLists)

OnceRemoveChildren == Len(log) = 0 /\ ApplyRemoveChildren

OnceReplaceChildren == Len(log) = 0 /\ ApplyReplaceChildren(NodeLists)

OnceReplace == Len(log) = 0 /\ ApplyReplace(NodeLists)

OnceModifyAttrib == Len(log) = 0 /\ ApplyModifyAttrib(Keys, Vals)

OnceDoAll == Len(log) = 0 /\ ApplyDoAll(SeqLists)

OnceForEach == Len(log) = 0 /\ ApplyForEach(EachShape, EachFns, NodeLists)

OnceForEachPanic == Len(log) = 0 /\ ApplyForEachPanic

OnceCopyAnd == Len(log) = 0 /\ ApplyCopyAnd(FnLists)

NextOnce ==
    \/ OnceAppendChildren
    \/ OncePrependChildren
    \/ OnceRemoveChildren
    \/ OnceReplaceChildren
    \/ OnceReplace
    \/ OnceModifyAttrib
    \/ OnceDoAll
    \/ OnceForEach
    \/ OnceForEachPanic
    \/ OnceCopyAnd

SpecOnce == InitOnce /\ [][NextOnce]_vars

(***************************************************************************)
(* Properties.  A call of a TransformFunc is an `application`: call c of   *)
(* the log, match j of that call, from heap log[c].hs[j] to heap           *)
(* log[c].hs[j+1].                                                         *)
(***************************************************************************)
Calls == 1..Len(log)

Apps(c) == 1..Len(log[c].nodes)

Before(c, j) == log[c].hs[j]
After(c, j)  == log[c].hs[j + 1]
Target(c, j) == log[c].nodes[j]

Range(s) == {s[i] : i \in 1..Len(s)}

\* What a heap looks like to the program: each node's fields, the child
\* slices by content
View(h) ==
    [nodes |-> [n \in 1..Len(h.nodes) |->
                  [Data |-> h.nodes[n].Data, Parent |-> h.nodes[n].Parent,
                   Attr |-> h.nodes[n].Attr, Child |-> Child(h, n)]],
     panic |-> h.panic]

HasAttr(h, n, key, val) ==
    /\ \E i \in 1..Len(Attr(h, n)) : Attr(h, n)[i].Key = key
    /\ \A i \in 1..Len(Attr(h, n)) : Attr(h, n)[i].Key = key => Attr(h, n)[i].Val = val

\* C6: AppendChildren(cs) applied to N leaves N.Child = C \o cs and
\* PrependChildren(cs) leaves N.Child = cs \o C, where C is N's child list
\* before the call; existing and new children keep their order.
C6_AppendPrependOrder ==
    \A c \in Calls : \A j \in Apps(c) :
        LET f == log[c].f
            N == Target(c, j)
        IN  /\ f.type = "AppendChildren" =>
                 Child(After(c, j), N) = Child(Before(c, j), N) \o f.ns
            /\ f.type = "PrependChildren" =>
                 Child(After(c, j), N) = f.ns \o Child(Before(c, j), N)

C6_Witness ==
    \E c \in Calls : \E j \in Apps(c) :
        /\ log[c].f.type = "AppendChildren"
        /\ Len(log[c].f.ns) = 2
        /\ Len(Child(Before(c, j), Target(c, j))) = 2
        /\ Len(Child(After(c, j), Target(c, j))) = 4

\* The attribute list ModifyAttrib(key, val) is specified to leave
RefModifyAttrib(A, key, val) ==
    IF \E i \in 1..Len(A) : A[i].Key = key
    THEN [i \in 1..Len(A) |-> IF A[i].Key = key THEN Attrib(key, val) ELSE A[i]]
    ELSE Append(A, Attrib(key, val))

\* C2: ModifyAttrib(key, val) applied to N with attribute list A leaves
\* N.Attr equal to the reference result: every entry with the key updated
\* and nothing added when the key is present, A with one entry {key, val}
\* appended when it is absent.
C2_ModifyAttribReference ==
    \A c \in Calls : \A j \in Apps(c) :
        log[c].f.type = "ModifyAttrib" =>
            Attr(After(c, j), Target(c, j)) =
                RefModifyAttrib(Attr(Before(c, j), Target(c, j)), log[c].f.key, log[c].f.val)

\* f1 then f2 applied to the node n (at most two operations)
Seq2(h, fs, n) ==
    IF Len(fs) = 0 THEN h
    ELSE IF Len(fs) = 1 THEN Call(h, fs[1], n)
    ELSE Call(Call(h, fs[1], n), fs[2], n)

\* C7: DoAll(f1..fn) applied to N leaves what applying f1, then f2, ... to
\* N in that order leaves, each seeing the effects of the earlier ones;
\* DoAll(ModifyAttrib(k, x), ModifyAttrib(k, y)) leaves attribute k = y.
C7_DoAllOrdering ==
    \A c \in Calls : \A j \in Apps(c) :
        LET f == log[c].f
            N == Target(c, j)
        IN  (f.type = "DoAll" /\ Len(f.fs) <= 2) =>
                /\ After(c, j) = Seq2(Before(c, j), f.fs, N)
                /\ ( /\ Len(f.fs) = 2
                     /\ f.fs[1].type = "ModifyAttrib"
                     /\ f.fs[2].type = "ModifyAttrib"
                     /\ f.fs[1].key = f.fs[2].key )
                   => HasAttr(After(c, j), N, f.fs[2].key, f.fs[2].val)

C7_Witness ==
    \E c \in Calls : \E j \in Apps(c) :
        LET f == log[c].f
        IN  /\ f.type = "DoAll"
            /\ f.fs = <<ModifyAttrib("class", "x"), ModifyAttrib("class", "y")>>
            /\ HasAttr(Before(c, j), Target(c, j), "class", "x")
            /\ HasAttr(After(c, j), Target(c, j), "class", "y")

\* C8: ForEach(f, n1..nk) applied to T has the effect of applying f(n1),
\* then f(n2), ..., then f(nk) to T, for f of either supported shape;
\* ForEach(AppendChildren, n1..nk) leaves T.Child = old children \o
\* <<n1..nk>>, and T unchanged when k = 0.
C8_ForEachFanOut ==
    \A c \in Calls : \A j \in Apps(c) :
        LET f  == log[c].f
            T  == Target(c, j)
            each == Bind(Before(c, j),
                         DoAll([i \in 1..Len(f.ns) |-> Construct(f.f, <<f.ns[i]>>)]))
        IN  f.type = "ForEach" =>
                /\ View(After(c, j)) = View(Call(each.h, each.f, T))
                /\ f.f = "AppendChildren" =>
                     Child(After(c, j), T) = Child(Before(c, j), T) \o f.ns
                /\ f.ns = <<>> => After(c, j) = Before(c, j)

C8_Witness ==
    \E c \in Calls : \E j \in Apps(c) :
        LET f == log[c].f
        IN  /\ f.type = "ForEach"
            /\ f.shape = "unary"
            /\ f.f = "PrependChildren"
            /\ Len(f.ns) = 2
            /\ Child(After(c, j), Target(c, j)) =
                  <<f.ns[2], f.ns[1]>> \o Child(Before(c, j), Target(c, j))

\* The places (1-based) of n in the sequence s
Places(s, n) == {i \in 1..Len(s) : s[i] = n}

\* An application of f to a node N that has a parent P and occurs exactly
\* once among P's children
InParentOnce(c, j) ==
    LET N == Target(c, j)
        P == Parent(Before(c, j), N)
    IN  /\ ~Before(c, j).panic
        /\ P # Null
        /\ Cardinality(Places(Child(Before(c, j), P), N)) = 1

PlaceOf(c, j) ==
    LET N == Target(c, j)
    IN  CHOOSE p \in Places(Child(Before(c, j), Parent(Before(c, j), N)), N) : TRUE

\* C3: CopyAnd(f1..fk), k >= 1, applied to N occurring once in the child
\* list C of its parent P leaves P.Child = C with N replaced in place by k
\* distinct clones of N, each with Parent = P: N absent, every other child
\* kept in order, len(P.Child) = len(C) + k - 1.
C3_CopyAndCardinality ==
    \A c \in Calls : \A j \in Apps(c) :
        (log[c].f.type = "CopyAnd" /\ Len(log[c].f.fs) >= 1 /\ InParentOnce(c, j)) =>
            LET N == Target(c, j)
                k == Len(log[c].f.fs)
                P == Parent(Before(c, j), N)
                C == Child(Before(c, j), P)
                R == Child(After(c, j), P)
                p == PlaceOf(c, j)
            IN  /\ Len(R) = Len(C) + k - 1
                /\ N \notin Range(R)
                /\ SubSeq(R, 1, p - 1) = SubSeq(C, 1, p - 1)
                /\ SubSeq(R, p + k, Len(R)) = SubSeq(C, p + 1, Len(C))
                /\ \A t \in 1..k :
                      /\ R[p - 1 + t] > Len(Before(c, j).nodes)
                      /\ Parent(After(c, j), R[p - 1 + t]) = P
                      /\ \A u \in 1..k : R[p - 1 + t] = R[p - 1 + u] => t = u

\* A Replace(ns) application to N, once among its parent's children and
\* not among ns
ReplaceCase(c, j) ==
    /\ log[c].f.type = "Replace"
    /\ InParentOnce(c, j)
    /\ Target(c, j) \notin Range(log[c].f.ns)

C4_WitnessInPlace ==
    \E c \in Calls : \E j \in Apps(c) :
        /\ ReplaceCase(c, j)
        /\ LET h == Before(c, j)
               P == Parent(h, Target(c, j))
               C == Child(h, P)
               ns == log[c].f.ns
           IN  /\ PlaceOf(c, j) = 1
               /\ Len(C) = 2
               /\ Len(ns) = 2
               /\ Child(After(c, j), P) = <<ns[1], ns[2], ns[2]>>

(***************************************************************************)
(* Properties of the chain of Apply calls.                                 *)
(***************************************************************************)
NodeView(h, n) ==
    [Child |-> Child(h, n), Parent |-> Parent(h, n), Attr |-> Attr(h, n)]

\* The nodes passed to the constructors of f
ArgNodes(f) == Range(f.ns) \cup UNION {Range(g.ns) : g \in Range(f.fs)}

SrcUnchanged == \A n \in SrcNodes : NodeView(heap, n) = NodeView(InitHeap, n)

NoSrcArgs == \A c \in Calls : ArgNodes(log[c].f) \cap SrcNodes = {}

\* C1 as stated: after any sequence of Apply calls the child lists, parent
\* links and attribute lists of the nodes of D are what they were.
C1_SourceUnchangedAlways == SrcUnchanged

\* C1 amended: after any sequence of Apply calls none of whose
\* TransformFuncs was given a node of D, the child lists, parent links and
\* attribute lists of the nodes of D are what they were.
C1_SourceUnchanged == NoSrcArgs => SrcUnchanged

C1_Witness ==
    /\ Len(log) = 2
    /\ NoSrcArgs
    /\ ~heap.panic
    /\ log[1].nodes # <<>>
    /\ log[2].nodes # <<>>
    /\ View(heap).nodes[doc] # View(InitHeap).nodes[doc]
    /\ SrcUnchanged

\* The nodes call c found in the tree that the call before it put there and
\* that its selector matches
Introduced(c) ==
    {m \in Reach(log[c].pre, doc) \ Reach(log[c - 1].pre, doc) :
        log[c].pre.nodes[m].Data = log[c].sel}

\* The call ran its query on a tree the walk finishes on
Queried(c) ==
    /\ ~log[c].pre.panic
    /\ ~(log[c].f.type = "ForEach" /\ log[c].f.shape = "other")
    /\ Walk(log[c].pre, doc, {}).ok

\* C5: an Apply call applies its operation to every node that the call
\* before it introduced into the tree and that its selector matches: the
\* match set is computed from the tree the earlier calls left, and the
\* Transformer's document is that tree.
C5_ChainedApplyRequeries ==
    \A c \in Calls :
        (c >= 2 /\ Queried(c)) =>
            LET f == log[c].f
                after == log[c].hs[Len(log[c].hs)]
            IN  /\ Introduced(c) \subseteq Range(log[c].nodes)
                /\ f.type = "ModifyAttrib" =>
                     \A m \in Introduced(c) : HasAttr(after, m, f.key, f.val)
                /\ f.type = "RemoveChildren" =>
                     \A m \in Introduced(c) : Child(after, m) = <<>>
                /\ Introduced(c) \subseteq Reach(log[c].pre, Doc)

C5_Witness ==
    \E c \in Calls :
        /\ c >= 2
        /\ Queried(c)
        /\ log[c].f.type = "ModifyAttrib"
        /\ \E m \in Introduced(c) :
              /\ ~HasAttr(log[c].pre, m, log[c].f.key, log[c].f.val)
              /\ HasAttr(heap, m, log[c].f.key, log[c].f.val)
              /\ m \in Reach(heap, Doc)

\* C9: every child c in the child list of a node N reachable from the
\* Transformer's document root has c.Parent = N.
C9_ParentBackReference ==
    ~heap.panic =>
        \A N \in Reach(heap, doc) : \A c \in Range(Child(heap, N)) :
            c # Null => Parent(heap, c) = N

\* The slots of child lists of reachable nodes that hold the node c
Owners(c) ==
    {<<N, i>> \in Reach(heap, doc) \X (1..Len(heap.nodes)) :
        i <= Len(Child(heap, N)) /\ Child(heap, N)[i] = c}

\* C10: every node occurs in at most one child list among the nodes
\* reachable from the Transformer's document root, and at most once in it.
C10_ExclusiveOwnership ==
    ~heap.panic => \A c \in 1..Len(heap.nodes) : Cardinality(Owners(c)) <= 1

=============================================================================
